---------------------------- MODULE Spec2Model ----------------------------
(***************************************************************************)
(* A model of the chunk alignment and caption timing code of the           *)
(* Kinyarwanda-English auto-captioning pipeline:                           *)
(*   src/src/transcription.py  transcribe_audio_file (chunker, stitcher)   *)
(*   src/src/captioning.py     format_timestamp, generate_captions, ...    *)
(*   src/src/translation.py    translate_chunks                            *)
(*   src/src/utils.py          time_to_seconds, parse_srt, parse_vtt       *)
(*   src/main.py               main, process_file                          *)
(*                                                                         *)
(* Representation.                                                         *)
(*  - A transcribed text is the sequence of its words (text.split()); the  *)
(*    empty sequence is the empty string.  " ".join is concatenation.      *)
(*  - Sample offsets are integers; a chunk's start_time and end_time are   *)
(*    kept as sample offsets (the source divides them by sr).              *)
(***************************************************************************)
EXTENDS Integers, Sequences, FiniteSets, TLC

VARIABLES
    \* ---- transcribe_audio_file (src/src/transcription.py)
    t_pc,               \* position in transcribe_audio_file
    audio_len,          \* len(audio), in samples
    chunk_size_seconds, \* argument
    overlap_seconds,    \* argument
    scenario,           \* which texts the recognition model may return
    loop_i,             \* loop variable i of the windowing loop (sample offset)
    chunks,             \* list built by the windowing loop
    stitch_i,           \* 1-based position of the stitching loop in chunks
    processed_chunks,   \* list built by the stitching loop
    t_result,           \* returned (full_text, processed_chunks), or NoResult
    \* ---- main (src/main.py)
    m_pc,               \* position in main
    m_audio,            \* what args.audio is: "file", "dir" or "invalid"
    m_mode,             \* args.mode
    m_video,            \* args.video is not None
    m_generate_video,   \* config['captioning']['generate_video']
    m_listing,          \* os.listdir(args.audio): the extension of each entry
    m_next,             \* 1-based position of the directory loop in m_listing
    m_calls,            \* the entries process_file was invoked for, in order
    m_failed_step,      \* the step of process_file that raised, or "none"
    \* ---- generate_captions (src/src/captioning.py)
    c_pc,               \* position: "call", "returned", "raised", "parsed"
    transcription,      \* argument: the full transcription (a string)
    translation,        \* argument: the full translation (a string)
    c_chunks,           \* argument: the chunk list
    format_type,        \* argument
    mt_outputs,         \* what the translation model returned for each chunk
    captions,           \* the returned caption text
    c_parsed,           \* parse_subtitle_file of the written caption file
    \* ---- the subtitle parser (src/src/utils.py)
    p_pc,               \* position: "call", "done"
    p_function,         \* the function called
    p_blocks,           \* the blocks the subtitle text was written from
    p_content,          \* argument: the subtitle text
    p_result            \* the list returned, or the exception raised

tvars == <<t_pc, audio_len, chunk_size_seconds, overlap_seconds, scenario,
           loop_i, chunks, stitch_i, processed_chunks, t_result>>

mvars == <<m_pc, m_audio, m_mode, m_video, m_generate_video, m_listing, m_next,
           m_calls, m_failed_step>>

cvars == <<c_pc, transcription, translation, c_chunks, format_type, mt_outputs,
           captions, c_parsed>>

pvars == <<p_pc, p_function, p_blocks, p_content, p_result>>

vars == <<tvars, mvars, cvars, pvars>>

\* what the actions of transcribe_audio_file, of main, of generate_captions
\* and of the parser leave alone
not_tvars == <<mvars, cvars, pvars>>
not_mvars == <<tvars, cvars, pvars>>
not_cvars == <<tvars, mvars, pvars>>
not_pvars == <<tvars, mvars, cvars>>

-----------------------------------------------------------------------------
(* Bounds of the model *)

\* samples per second of the resampled audio (16000 in the source, scaled down)
SR == 2
\* longest waveform, in seconds
MaxAudioSeconds == 5
\* largest chunk_size_seconds / overlap_seconds argument
MaxSeconds == 4
\* longest text of the general text pool, in words
MaxWords == 2
\* number of windows of the stitching scenarios
MaxChunks == 3
\* most entries of the input directory
MaxFiles == 3
\* most chunks passed to generate_captions
MaxCaptionChunks == 2
\* most sentences of a translation
MaxSentences == 2
\* most blocks of a subtitle text given to the parser
MaxBlocks == 3

-----------------------------------------------------------------------------
(* Helpers *)

Min(a, b) == IF a <= b THEN a ELSE b
Max(a, b) == IF a >= b THEN a ELSE b

Prefix(s, n) == SubSeq(s, 1, n)
Suffix(s, n) == SubSeq(s, Len(s) - n + 1, Len(s))
Drop(s, n) == SubSeq(s, n + 1, Len(s))

SeqsUpTo(S, n) == UNION {[1..k -> S] : k \in 0..n}

NoResult == [kind |-> "none", full_text |-> <<>>, chunks |-> <<>>]

-----------------------------------------------------------------------------
(* Strings: a string is the sequence of its characters.  The alphabet is a  *)
(* letter, a blank and a full stop; no string of the model holds a newline. *)

Chars == {"a", " ", "."}

Rep(c, n) == [k \in 1..n |-> c]

\* c.isspace()
IsSpace(c) == c = " "

\* not s.strip()
IsBlank(s) == \A k \in 1..Len(s) : IsSpace(s[k])

\* s.lstrip(), s.rstrip(), s.strip()
RECURSIVE LStrip(_)
LStrip(s) == IF s # <<>> /\ IsSpace(s[1]) THEN LStrip(Tail(s)) ELSE s
RECURSIVE RStrip(_)
RStrip(s) ==
    IF s # <<>> /\ IsSpace(s[Len(s)]) THEN RStrip(SubSeq(s, 1, Len(s) - 1)) ELSE s
Strip(s) == RStrip(LStrip(s))

\* the length of the longest prefix of s without a blank
RECURSIVE WordEnd(_)
WordEnd(s) == IF s = <<>> \/ IsSpace(s[1]) THEN 0 ELSE 1 + WordEnd(Tail(s))

\* s.split(): the words of s
RECURSIVE Split(_)
Split(s) ==
    LET t == LStrip(s)
    IN  IF t = <<>> THEN <<>>
        ELSE <<SubSeq(t, 1, WordEnd(t))>> \o Split(SubSeq(t, WordEnd(t) + 1, Len(t)))

\* " ".join(words)
RECURSIVE Join(_)
Join(ws) ==
    IF ws = <<>> THEN <<>>
    ELSE IF Len(ws) = 1 THEN ws[1]
    ELSE ws[1] \o <<" ">> \o Join(Tail(ws))

\* [.!?]
IsSentenceEnd(c) == c \in {".", "!", "?"}

\* the least element of a non-empty set of numbers
SetMin(S) == CHOOSE x \in S : \A y \in S : x <= y

\* the positions from `from` on where a separator of
\* re.split(r'(?<=[.!?])\s+', s) starts: a blank that follows a
\* sentence-ending character
SeparatorStarts(s, from) ==
    {k \in from..Len(s) : IsSpace(s[k]) /\ k > 1 /\ IsSentenceEnd(s[k - 1])}

\* the first position after the run of blanks that starts at position k
RunEnd(s, k) == SetMin({j \in k..(Len(s) + 1) : j = Len(s) + 1 \/ ~IsSpace(s[j])})

\* re.split(r'(?<=[.!?])\s+', s) of the part of s from position `from` on
RECURSIVE SplitSentencesFrom(_, _)
SplitSentencesFrom(s, from) ==
    IF SeparatorStarts(s, from) = {}
    THEN <<SubSeq(s, from, Len(s))>>
    ELSE LET k == SetMin(SeparatorStarts(s, from))
         IN  <<SubSeq(s, from, k - 1)>> \o SplitSentencesFrom(s, RunEnd(s, k))
SplitSentences(s) == SplitSentencesFrom(s, 1)

\* sum(len(s) for s in sentences)
RECURSIVE TotalChars(_)
TotalChars(ss) == IF ss = <<>> THEN 0 ELSE Len(ss[1]) + TotalChars(Tail(ss))

RECURSIVE Flatten(_)
Flatten(ss) == IF ss = <<>> THEN <<>> ELSE ss[1] \o Flatten(Tail(ss))

-----------------------------------------------------------------------------
(* Caption text: a sequence of lines ("\n".join(lines)).  A time is the     *)
(* pair (sec, us) of whole seconds and microseconds, timedelta's normal     *)
(* form with the days counted in sec.                                       *)

Time(sec, us) == [sec |-> sec, us |-> us]

\* a float number of seconds held in microseconds, as a time
FromMicros(us) == Time(us \div 1000000, us % 1000000)

\* the fractional-seconds separator of a format
Separator(type) == IF type = "srt" THEN "," ELSE IF type = "vtt" THEN "." ELSE ""

\* format_timestamp(seconds, format_type): td.seconds is the seconds within
\* the day, td.microseconds // 1000 the milliseconds; the string
\* HH:MM:SS,mmm (srt), HH:MM:SS.mmm (vtt) or HH:MM:SS is held by its fields
FormatTimestamp(t, type) ==
    LET td_seconds == t.sec % 86400
        hours      == td_seconds \div 3600
        remainder  == td_seconds % 3600
    IN  [ok  |-> TRUE,
         h   |-> hours,
         m   |-> remainder \div 60,
         s   |-> remainder % 60,
         ms  |-> IF Separator(type) = "" THEN 0 ELSE t.us \div 1000,
         sep |-> Separator(type)]

\* the lines of a caption text
NumLine(n)     == [k |-> "num",    n |-> n, toks |-> <<>>, txt |-> <<>>]
TextLine(str)  == [k |-> "text",   n |-> 0, toks |-> <<>>, txt |-> str]
HeaderLine     == [k |-> "WEBVTT", n |-> 0, toks |-> <<>>, txt |-> <<>>]
SentinelLine   == [k |-> "No caption data available",
                                   n |-> 0, toks |-> <<>>, txt |-> <<>>]
EmptyLine      == TextLine(<<>>)
\* f"{start_time} --> {end_time}": the strings between the arrows
ArrowLine(toks) == [k |-> "arrow", n |-> 0, toks |-> toks, txt |-> <<>>]
TimingLine(start, end, type) ==
    ArrowLine(<<FormatTimestamp(start, type), FormatTimestamp(end, type)>>)

\* values of generate_captions
Returned(lines) == [kind |-> "returned", lines |-> lines]
Raised(error)   == [kind |-> error, lines |-> <<>>]
NoCaptions      == [kind |-> "none", lines |-> <<>>]

\* translate_chunks(chunks): blank chunks are skipped, every other chunk gets
\* the translation mt[k] the model returns for it
TranslateChunks(chunk_list, mt) ==
    LET translated == [k \in 1..Len(chunk_list) |->
                          [start_time      |-> chunk_list[k].start_time,
                           end_time        |-> chunk_list[k].end_time,
                           original_text   |-> chunk_list[k].text,
                           translated_text |-> mt[k]]]
    IN  SelectSeq(translated, LAMBDA c : ~IsBlank(c.original_text))

\* generate_srt_captions, both texts given: the loop over
\* enumerate(translated_chunks, 1) from position i on
RECURSIVE SrtDual(_, _)
SrtDual(translated_chunks, i) ==
    IF i > Len(translated_chunks) THEN <<>>
    ELSE LET chunk == translated_chunks[i]
         IN  IF chunk.original_text = <<>> \/ chunk.translated_text = <<>>
             THEN SrtDual(translated_chunks, i + 1)
             ELSE <<NumLine(i),
                    TimingLine(chunk.start_time, chunk.end_time, "srt"),
                    TextLine(chunk.original_text),
                    TextLine(chunk.translated_text),
                    EmptyLine>> \o SrtDual(translated_chunks, i + 1)

\* generate_srt_captions, transcription only: the loop over
\* enumerate(chunks, 1) from position i on
RECURSIVE SrtTranscription(_, _)
SrtTranscription(chunk_list, i) ==
    IF i > Len(chunk_list) THEN <<>>
    ELSE LET chunk == chunk_list[i]
         IN  IF IsBlank(chunk.text)
             THEN SrtTranscription(chunk_list, i + 1)
             ELSE <<NumLine(i),
                    TimingLine(chunk.start_time, chunk.end_time, "srt"),
                    TextLine(chunk.text),
                    EmptyLine>> \o SrtTranscription(chunk_list, i + 1)

\* total_chars / 30: the assumed speaking rate, characters per second
PaceCharsPerSecond == 30
\* max(sentence_duration, 1.5), in microseconds
MinDwellMicros == 1500000
\* if len(words) > 12
LongSentenceWords == 12
\* range(0, len(words), 10)
SegmentWords == 10

\* sentence_duration = max(len(sentence) / chars_per_second, 1.5) with
\* chars_per_second = total_chars / max(total_chars / 30, len(sentences)),
\* in whole microseconds
SentenceDuration(sentence, total_chars, n_sentences) ==
    LET by_rate ==
          IF total_chars >= PaceCharsPerSecond * n_sentences
          THEN (Len(sentence) * 1000000) \div PaceCharsPerSecond
          ELSE (Len(sentence) * n_sentences * 1000000) \div total_chars
    IN  Max(by_rate, MinDwellMicros)

\* [" ".join(words[j:j+10]) for j in range(0, len(words), 10)]
RECURSIVE Segments(_)
Segments(words) ==
    IF words = <<>> THEN <<>>
    ELSE <<Join(SubSeq(words, 1, Min(SegmentWords, Len(words))))>>
         \o Segments(SubSeq(words, SegmentWords + 1, Len(words)))

\* a cue that forgets the running clock and starts at 0
PacedCueRestarting(chunk_count, current_time, duration, text) ==
    <<NumLine(chunk_count),
      TimingLine(FromMicros(0), FromMicros(duration), "srt"),
      TextLine(text),
      EmptyLine>>

\* one cue of the translation-only branch of generate_srt_captions
PacedCue(chunk_count, current_time, duration, text) ==
    <<NumLine(chunk_count),
      TimingLine(FromMicros(current_time), FromMicros(current_time + duration), "srt"),
      TextLine(text),
      EmptyLine>>

\* `for segment in segments` from segment j on
RECURSIVE SrtSegments(_, _, _, _, _)
SrtSegments(segments, j, current_time, chunk_count, segment_duration) ==
    IF j > Len(segments) THEN <<>>
    ELSE PacedCue(chunk_count, current_time, segment_duration, segments[j])
         \o SrtSegments(segments, j + 1, current_time + segment_duration,
                        chunk_count + 1, segment_duration)

\* generate_srt_captions, translation only: `for sentence in sentences` from
\* sentence k on, with the running current_time (microseconds) and chunk_count
RECURSIVE SrtPaced(_, _, _, _)
SrtPaced(sentences, k, current_time, chunk_count) ==
    IF k > Len(sentences) THEN <<>>
    ELSE IF IsBlank(sentences[k])
    THEN SrtPaced(sentences, k + 1, current_time, chunk_count)
    ELSE LET sentence == sentences[k]
             sentence_duration ==
                 SentenceDuration(sentence, TotalChars(sentences), Len(sentences))
             words == Split(sentence)
         IN  IF Len(words) > LongSentenceWords
             THEN LET segments == Segments(words)
                      segment_duration == sentence_duration \div Len(segments)
                  IN  SrtSegments(segments, 1, current_time, chunk_count,
                                  segment_duration)
                      \o SrtPaced(sentences, k + 1,
                                  current_time + Len(segments) * segment_duration,
                                  chunk_count + Len(segments))
             ELSE PacedCue(chunk_count, current_time, sentence_duration, sentence)
                  \o SrtPaced(sentences, k + 1, current_time + sentence_duration,
                              chunk_count + 1)

\* generate_srt_captions(transcription, translation, chunks)
GenerateSrtCaptions(transcription_, translation_, chunk_list, mt) ==
    IF transcription_ # <<>> /\ translation_ # <<>>
    THEN SrtDual(TranslateChunks(chunk_list, mt), 1)
    ELSE IF translation_ # <<>>
    THEN SrtPaced(SplitSentences(translation_), 1, 0, 1)
    ELSE SrtTranscription(chunk_list, 1)

\* generate_vtt_captions, both texts given: every translated chunk
RECURSIVE VttDual(_, _)
VttDual(translated_chunks, i) ==
    IF i > Len(translated_chunks) THEN <<>>
    ELSE LET chunk == translated_chunks[i]
         IN  <<TimingLine(chunk.start_time, chunk.end_time, "vtt"),
               TextLine(chunk.original_text),
               TextLine(chunk.translated_text),
               EmptyLine>> \o VttDual(translated_chunks, i + 1)

\* generate_vtt_captions, transcription only: every chunk
RECURSIVE VttTranscription(_, _)
VttTranscription(chunk_list, i) ==
    IF i > Len(chunk_list) THEN <<>>
    ELSE <<TimingLine(chunk_list[i].start_time, chunk_list[i].end_time, "vtt"),
           TextLine(chunk_list[i].text),
           EmptyLine>> \o VttTranscription(chunk_list, i + 1)

\* chars_per_second = 20
VttCharsPerSecond == 20
\* `> 5`: at most 5 seconds per caption, in microseconds
VttMaxMicros == 5000000

\* one cue of the translation-only branch of generate_vtt_captions
VttCue(start_time, current_duration, current_chunk) ==
    <<TimingLine(FromMicros(start_time), FromMicros(start_time + current_duration),
                 "vtt"),
      TextLine(Join(current_chunk)),
      EmptyLine>>

\* generate_vtt_captions, translation only: `for word in words` from word k
\* on, then the last chunk
RECURSIVE VttPaced(_, _, _, _, _)
VttPaced(words, k, current_chunk, current_duration, start_time) ==
    IF k > Len(words)
    THEN IF current_chunk # <<>>
         THEN VttCue(start_time, current_duration, current_chunk)
         ELSE <<>>
    ELSE LET word_duration == (Len(words[k]) * 1000000) \div VttCharsPerSecond
         IN  IF current_duration + word_duration > VttMaxMicros
             THEN VttCue(start_time, current_duration, current_chunk)
                  \o VttPaced(words, k + 1, <<words[k]>>, word_duration,
                              start_time + current_duration)
             ELSE VttPaced(words, k + 1, Append(current_chunk, words[k]),
                           current_duration + word_duration, start_time)

\* generate_vtt_captions(transcription, translation, chunks)
GenerateVttCaptions(transcription_, translation_, chunk_list, mt) ==
    <<HeaderLine, EmptyLine>> \o
    (IF transcription_ # <<>> /\ translation_ # <<>>
     THEN VttDual(TranslateChunks(chunk_list, mt), 1)
     ELSE IF translation_ # <<>>
     THEN VttPaced(Split(translation_), 1, <<>>, 0, 0)
     ELSE VttTranscription(chunk_list, 1))

-----------------------------------------------------------------------------
(* The subtitle parser (src/src/utils.py).  A parsed time is a whole number *)
(* of milliseconds.                                                         *)

\* time_to_seconds(time_str) raises ValueError: the string does not split
\* into three numbers at the colons
TimeRaises(tok) == ~tok.ok

\* time_to_seconds(time_str), for HH:MM:SS,mmm, HH:MM:SS.mmm and HH:MM:SS
TimeToSeconds(tok) == tok.h * 3600000 + tok.m * 60000 + tok.s * 1000 + tok.ms

\* a line that holds nothing but whitespace
IsBlankLine(line) == line.k = "text" /\ IsBlank(line.txt)

\* the number of lines before the first blank line
RECURSIVE BlockEnd(_)
BlockEnd(lines) ==
    IF lines = <<>> \/ IsBlankLine(lines[1]) THEN 0 ELSE 1 + BlockEnd(Tail(lines))

\* block.strip().split('\n') of one maximal run of lines that are not blank
StripBlock(block) ==
    [k \in 1..Len(block) |->
        IF block[k].k # "text" THEN block[k]
        ELSE TextLine(IF k = 1 /\ k = Len(block) THEN Strip(block[k].txt)
                      ELSE IF k = 1 THEN LStrip(block[k].txt)
                      ELSE IF k = Len(block) THEN RStrip(block[k].txt)
                      ELSE block[k].txt)]

\* re.split(r'\n\s*\n', content.strip()), each block stripped and split into
\* lines: the maximal runs of lines that are not blank
RECURSIVE Blocks(_)
Blocks(lines) ==
    IF lines = <<>> THEN <<>>
    ELSE IF IsBlankLine(lines[1]) THEN Blocks(Tail(lines))
    ELSE <<StripBlock(SubSeq(lines, 1, BlockEnd(lines)))>>
         \o Blocks(SubSeq(lines, BlockEnd(lines) + 1, Len(lines)))

\* time_line.split(' --> ')
SplitArrow(line) == IF line.k = "arrow" THEN line.toks ELSE <<line>>

Parsed(subtitles) == [kind |-> "returned", subtitles |-> subtitles]
ParseRaised       == [kind |-> "ValueError", subtitles |-> <<>>]
NotParsed         == [kind |-> "none", subtitles |-> <<>>]

\* the entry of a block whose timestamp line is lines[at]
Subtitle(lines, at) ==
    [start |-> TimeToSeconds(lines[at].toks[1]),
     end   |-> TimeToSeconds(lines[at].toks[2]),
     text  |-> SubSeq(lines, at + 1, Len(lines))]

\* parse_srt: `for block in blocks` from block k on, subtitles so far in acc
RECURSIVE ParseSrtBlocks(_, _, _)
ParseSrtBlocks(blocks, k, acc) ==
    IF k > Len(blocks) THEN Parsed(acc)
    ELSE LET lines == blocks[k]
         IN  IF Len(lines) < 3
             THEN ParseSrtBlocks(blocks, k + 1, acc)
             ELSE IF Len(SplitArrow(lines[2])) # 2
             THEN ParseSrtBlocks(blocks, k + 1, acc)
             ELSE IF TimeRaises(lines[2].toks[1]) \/ TimeRaises(lines[2].toks[2])
             THEN ParseRaised
             ELSE ParseSrtBlocks(blocks, k + 1, Append(acc, Subtitle(lines, 2)))

\* parse_srt(content)
ParseSrt(content) == ParseSrtBlocks(Blocks(content), 1, <<>>)

\* the position of the first line of the block that contains ' --> ', 0 when
\* there is none
RECURSIVE FindArrow(_, _)
FindArrow(lines, i) ==
    IF i > Len(lines) THEN 0
    ELSE IF lines[i].k = "arrow" THEN i
    ELSE FindArrow(lines, i + 1)

\* parse_vtt: `for block in blocks` from block k on
RECURSIVE ParseVttBlocks(_, _, _)
ParseVttBlocks(blocks, k, acc) ==
    IF k > Len(blocks) THEN Parsed(acc)
    ELSE LET lines == blocks[k]
             at    == FindArrow(lines, 1)
         IN  IF Len(lines) < 2
             THEN ParseVttBlocks(blocks, k + 1, acc)
             ELSE IF at = 0
             THEN ParseVttBlocks(blocks, k + 1, acc)
             ELSE IF Len(SplitArrow(lines[at])) # 2
             THEN ParseVttBlocks(blocks, k + 1, acc)
             ELSE IF TimeRaises(lines[at].toks[1]) \/ TimeRaises(lines[at].toks[2])
             THEN ParseRaised
             ELSE ParseVttBlocks(blocks, k + 1, Append(acc, Subtitle(lines, at)))

\* re.sub(r'^WEBVTT\s*\n', '', content): a first line WEBVTT that is not the
\* last line goes, with the blank lines that follow it
DropHeader(content) ==
    IF Len(content) >= 2 /\ content[1].k = "WEBVTT" THEN Tail(content) ELSE content

\* parse_vtt(content)
ParseVtt(content) == ParseVttBlocks(Blocks(DropHeader(content)), 1, <<>>)

\* content.strip().startswith('WEBVTT')
RECURSIVE StartsWithHeader(_)
StartsWithHeader(content) ==
    IF content = <<>> THEN FALSE
    ELSE IF IsBlankLine(content[1]) THEN StartsWithHeader(Tail(content))
    ELSE content[1].k = "WEBVTT"

\* parse_subtitle_file(subtitle_path), content being the file's text
ParseSubtitleFile(content) ==
    IF StartsWithHeader(content) THEN ParseVtt(content) ELSE ParseSrt(content)

-----------------------------------------------------------------------------
(* The subtitle parser: the actions *)

\* parse_srt(content)
CallParseSrt ==
    /\ p_pc = "call"
    /\ p_function = "parse_srt"
    /\ p_result' = ParseSrt(p_content)
    /\ p_pc' = "done"
    /\ UNCHANGED <<p_function, p_blocks, p_content>>
    /\ UNCHANGED not_pvars

\* parse_vtt(content)
CallParseVtt ==
    /\ p_pc = "call"
    /\ p_function = "parse_vtt"
    /\ p_result' = ParseVtt(p_content)
    /\ p_pc' = "done"
    /\ UNCHANGED <<p_function, p_blocks, p_content>>
    /\ UNCHANGED not_pvars

\* parse_subtitle_file(subtitle_path)
CallParseSubtitleFile ==
    /\ p_pc = "call"
    /\ p_function = "parse_subtitle_file"
    /\ p_result' = ParseSubtitleFile(p_content)
    /\ p_pc' = "done"
    /\ UNCHANGED <<p_function, p_blocks, p_content>>
    /\ UNCHANGED not_pvars

ParserNext ==
    \/ CallParseSrt
    \/ CallParseVtt
    \/ CallParseSubtitleFile

\* timestamps of the parser's inputs: well-formed, and not a timestamp
GoodTime(s, ms, sep) == [ok |-> TRUE, h |-> 0, m |-> 1, s |-> s, ms |-> ms, sep |-> sep]
BadTime == [ok |-> FALSE, h |-> 0, m |-> 0, s |-> 0, ms |-> 0, sep |-> ""]

\* the blocks of the parser's inputs
InputBlocks ==
    { \* number, timestamps, text
      <<NumLine(1), ArrowLine(<<GoodTime(1, 0, ","), GoodTime(2, 500, ",")>>),
        TextLine(<<"a">>)>>,
      \* timestamps, text
      <<ArrowLine(<<GoodTime(1, 0, "."), GoodTime(2, 500, ".")>>), TextLine(<<"a">>)>>,
      \* timestamps, two lines of text
      <<ArrowLine(<<GoodTime(3, 0, "."), GoodTime(4, 0, ".")>>), TextLine(<<"a">>),
        TextLine(<<"a", "a">>)>>,
      \* an end that is no timestamp
      <<NumLine(1), ArrowLine(<<GoodTime(1, 0, ","), BadTime>>), TextLine(<<"a">>)>>,
      \* two arrows in the timestamp line
      <<NumLine(1), ArrowLine(<<GoodTime(1, 0, ","), GoodTime(2, 0, ","),
                                GoodTime(3, 0, ",")>>), TextLine(<<"a">>)>>,
      \* no timestamp line
      <<NumLine(1), TextLine(<<"a">>), TextLine(<<"a">>)>>,
      \* one line
      <<TextLine(<<"a">>)>> }

\* the text of blocks separated by empty lines
RECURSIVE JoinBlocks(_)
JoinBlocks(blocks) ==
    IF blocks = <<>> THEN <<>>
    ELSE IF Len(blocks) = 1 THEN blocks[1]
    ELSE blocks[1] \o <<EmptyLine>> \o JoinBlocks(Tail(blocks))

\* a call of one of the parser's functions on a subtitle text, with or
\* without the WEBVTT header
InitParserCall ==
    /\ p_pc = "call"
    /\ p_function \in {"parse_srt", "parse_vtt", "parse_subtitle_file"}
    /\ p_blocks \in SeqsUpTo(InputBlocks, MaxBlocks)
    /\ \E header \in {<<>>, <<HeaderLine, EmptyLine>>} :
          p_content = header \o JoinBlocks(p_blocks)
    /\ p_result = NotParsed

\* the parser is not running
ParserIdle ==
    /\ p_pc = "idle"
    /\ p_function = "parse_srt"
    /\ p_blocks = <<>>
    /\ p_content = <<>>
    /\ p_result = NotParsed

-----------------------------------------------------------------------------
(* generate_captions: the actions *)

\* the strings of chunk texts and of the translations of chunks: empty,
\* blank, a word, a word followed by a blank
ShortTexts == {<<>>, <<" ">>, <<"a">>, <<"a", " ">>}

\* if not chunks: return "No caption data available"
CaptionsNoChunks ==
    /\ c_pc = "call"
    /\ c_chunks = <<>>
    /\ captions' = Returned(<<SentinelLine>>)
    /\ c_pc' = "returned"
    /\ UNCHANGED <<transcription, translation, c_chunks, format_type, mt_outputs,
                   c_parsed>>
    /\ UNCHANGED not_cvars

\* format_type == "srt": return generate_srt_captions(...)
CaptionsSrt ==
    /\ c_pc = "call"
    /\ c_chunks # <<>>
    /\ format_type = "srt"
    /\ \E mt \in [1..Len(c_chunks) -> ShortTexts] :
          /\ mt_outputs' = IF transcription # <<>> /\ translation # <<>>
                           THEN mt ELSE <<>>
          /\ captions' = Returned(GenerateSrtCaptions(transcription, translation,
                                                      c_chunks, mt))
    /\ c_pc' = "returned"
    /\ UNCHANGED <<transcription, translation, c_chunks, format_type, c_parsed>>
    /\ UNCHANGED not_cvars

\* format_type == "vtt": return generate_vtt_captions(...)
CaptionsVtt ==
    /\ c_pc = "call"
    /\ c_chunks # <<>>
    /\ format_type = "vtt"
    /\ \E mt \in [1..Len(c_chunks) -> ShortTexts] :
          /\ mt_outputs' = IF transcription # <<>> /\ translation # <<>>
                           THEN mt ELSE <<>>
          /\ captions' = Returned(GenerateVttCaptions(transcription, translation,
                                                      c_chunks, mt))
    /\ c_pc' = "returned"
    /\ UNCHANGED <<transcription, translation, c_chunks, format_type, c_parsed>>
    /\ UNCHANGED not_cvars

\* else: raise ValueError(f"Unsupported caption format: {format_type}")
CaptionsUnsupported ==
    /\ c_pc = "call"
    /\ c_chunks # <<>>
    /\ format_type \notin {"srt", "vtt"}
    /\ captions' = Raised("ValueError")
    /\ c_pc' = "raised"
    /\ UNCHANGED <<transcription, translation, c_chunks, format_type, mt_outputs,
                   c_parsed>>
    /\ UNCHANGED not_cvars

\* the returned text, written to the caption file, is read back with
\* parse_subtitle_file
ParseCaptionFile ==
    /\ c_pc = "returned"
    /\ c_parsed' = ParseSubtitleFile(captions.lines)
    /\ c_pc' = "parsed"
    /\ UNCHANGED <<transcription, translation, c_chunks, format_type, mt_outputs,
                   captions>>
    /\ UNCHANGED not_cvars

CaptionNext ==
    \/ CaptionsNoChunks
    \/ CaptionsSrt
    \/ CaptionsVtt
    \/ CaptionsUnsupported
    \/ ParseCaptionFile

\* generate_captions is not running
CaptionIdle ==
    /\ c_pc = "idle"
    /\ transcription = <<>>
    /\ translation = <<>>
    /\ c_chunks = <<>>
    /\ format_type = "srt"
    /\ mt_outputs = <<>>
    /\ captions = NoCaptions
    /\ c_parsed = NotParsed

\* the arguments of generate_captions
Formats == {"srt", "vtt", "ass"}

\* start and end times of chunks: within the first seconds, up to the last
\* microsecond of the first day, and beyond 24 hours
ChunkTimes ==
    { <<Time(0, 0), Time(1, 500000)>>,
      <<Time(1, 500000), Time(86399, 999999)>>,
      <<Time(86400, 0), Time(90061, 7000)>> }

CaptionChunks ==
    {[start_time |-> tt[1], end_time |-> tt[2], text |-> text] :
        tt \in ChunkTimes, text \in ShortTexts}

\* a sentence of nw words of wlen characters, the last of which is a full stop
SentenceOf(nw, wlen) ==
    Join([k \in 1..nw |-> IF k < nw THEN Rep("a", wlen)
                                    ELSE Rep("a", wlen - 1) \o <<".">>])

\* the sentences of the translations: 1, 11, 12, 13 and 21 words of 2 and of
\* 6 characters
Sentences == {SentenceOf(nw, wlen) : nw \in {1, 11, 12, 13, 21}, wlen \in {2, 6}}

\* the translations: up to MaxSentences sentences separated by a blank, with
\* or without a trailing blank, and the translation that is one blank
Translations ==
    {Join(ss) \o trail : ss \in (SeqsUpTo(Sentences, MaxSentences) \ {<<>>}),
                         trail \in {<<>>, <<" ">>}}
    \cup {<<" ">>}

\* a call of generate_captions on chunks: each of the two texts empty or not
InitCaptionChunks ==
    /\ c_pc = "call"
    /\ transcription \in {<<>>, <<"a">>}
    /\ translation \in {<<>>, <<"a", ".">>}
    /\ c_chunks \in SeqsUpTo(CaptionChunks, MaxCaptionChunks)
    /\ format_type \in Formats
    /\ mt_outputs = <<>>
    /\ captions = NoCaptions
    /\ c_parsed = NotParsed

\* a call of generate_captions on a translation alone
InitCaptionPacing ==
    /\ c_pc = "call"
    /\ transcription = <<>>
    /\ translation \in Translations
    /\ c_chunks \in {<<>>, <<[start_time |-> Time(0, 0), end_time |-> Time(1, 500000),
                            text |-> <<"a">>]>>}
    /\ format_type \in Formats
    /\ mt_outputs = <<>>
    /\ captions = NoCaptions
    /\ c_parsed = NotParsed

-----------------------------------------------------------------------------
(* main and process_file (src/main.py) *)

\* extensions of directory entries: three of the four that main accepts and
\* one that it does not
Extensions == {".mp3", ".wav", ".flac", ".txt"}

\* filename.endswith(('.mp3', '.wav', '.flac', '.ogg'))
IsAudioFile(ext) == ext \in {".mp3", ".wav", ".flac", ".ogg"}

Modes == {"transcribe", "translate", "caption", "full"}

\* the steps process_file runs for the mode, each a call that can raise
\* (errors of the models, of file I/O and of the encoder propagate uncaught)
StepsRun(mode, video, generate_video) ==
    (IF mode \in {"transcribe", "full", "translate", "caption"}
     THEN {"transcription"} ELSE {})
    \cup (IF mode \in {"translate", "full", "caption"}
          THEN {"translation"} ELSE {})
    \cup (IF mode \in {"caption", "full"} /\ (video \/ generate_video)
          THEN {"captioning"} \cup (IF video THEN {"captioned_video"} ELSE {})
          ELSE {})

\* process_file ends by returning ("none") or by raising in one of its steps
ProcessFileOutcomes == {"none"} \cup StepsRun(m_mode, m_video, m_generate_video)

\* if os.path.isfile(args.audio): process_file(args.audio, ...)
MainSingleFile ==
    /\ m_pc = "start"
    /\ m_audio = "file"
    /\ \E outcome \in ProcessFileOutcomes :
          /\ m_failed_step' = outcome
          /\ m_pc' = IF outcome = "none" THEN "done" ELSE "raised"
    /\ m_calls' = Append(m_calls, 0)
    /\ UNCHANGED <<m_audio, m_mode, m_video, m_generate_video, m_listing, m_next>>
    /\ UNCHANGED not_mvars

\* elif os.path.isdir(args.audio): the loop over os.listdir starts
MainListDirectory ==
    /\ m_pc = "start"
    /\ m_audio = "dir"
    /\ m_pc' = "listing"
    /\ m_next' = 1
    /\ UNCHANGED <<m_audio, m_mode, m_video, m_generate_video, m_listing, m_calls,
                   m_failed_step>>
    /\ UNCHANGED not_mvars

\* else: logger.error(...)
MainInvalidPath ==
    /\ m_pc = "start"
    /\ m_audio = "invalid"
    /\ m_pc' = "done"
    /\ UNCHANGED <<m_audio, m_mode, m_video, m_generate_video, m_listing, m_next,
                   m_calls, m_failed_step>>
    /\ UNCHANGED not_mvars

\* one iteration of the directory loop on an entry that is no audio file
MainSkipEntry ==
    /\ m_pc = "listing"
    /\ m_next <= Len(m_listing)
    /\ ~IsAudioFile(m_listing[m_next])
    /\ m_next' = m_next + 1
    /\ UNCHANGED <<m_pc, m_audio, m_mode, m_video, m_generate_video, m_listing,
                   m_calls, m_failed_step>>
    /\ UNCHANGED not_mvars

\* one iteration of the directory loop on an audio file: process_file is
\* called with no exception handler around it, so an exception leaves main
MainProcessEntry ==
    /\ m_pc = "listing"
    /\ m_next <= Len(m_listing)
    /\ IsAudioFile(m_listing[m_next])
    /\ m_calls' = Append(m_calls, m_next)
    /\ \E outcome \in ProcessFileOutcomes :
          /\ m_failed_step' = outcome
          /\ IF outcome = "none"
             THEN m_pc' = "listing" /\ m_next' = m_next + 1
             ELSE m_pc' = "raised" /\ UNCHANGED m_next
    /\ UNCHANGED <<m_audio, m_mode, m_video, m_generate_video, m_listing>>
    /\ UNCHANGED not_mvars

\* the directory loop ends
MainEndDirectory ==
    /\ m_pc = "listing"
    /\ m_next > Len(m_listing)
    /\ m_pc' = "done"
    /\ UNCHANGED <<m_audio, m_mode, m_video, m_generate_video, m_listing, m_next,
                   m_calls, m_failed_step>>
    /\ UNCHANGED not_mvars

MainNext ==
    \/ MainSingleFile
    \/ MainListDirectory
    \/ MainInvalidPath
    \/ MainSkipEntry
    \/ MainProcessEntry
    \/ MainEndDirectory

\* main is not running
MainIdle ==
    /\ m_pc = "idle"
    /\ m_audio = "invalid"
    /\ m_mode = "full"
    /\ m_video = FALSE
    /\ m_generate_video = FALSE
    /\ m_listing = <<>>
    /\ m_next = 1
    /\ m_calls = <<>>
    /\ m_failed_step = "none"

-----------------------------------------------------------------------------
(* transcribe_audio_file: the stitcher's phrase comparison *)

Words == {"a", "A", "b"}

\* str.lower() of one word
Lower(w) == IF w = "A" THEN "a" ELSE w

\* " ".join(words).lower(), as a word sequence
LowerPhrase(ws) == [k \in 1..Len(ws) |-> Lower(ws[k])]

\* range(min(10, len(prev_words))): the number of candidate offsets j
OverlapWindow == 10

\* `if overlap_size >= 2`
MinOverlap == 2

\* overlap_size of iteration j
OverlapSize(prev_words, curr_words, j) ==
    Min(Len(prev_words) - j, Len(curr_words))

\* the loop `for j in range(min(10, len(prev_words)))` from iteration j on:
\* the overlap_size of the first iteration that matches, 0 when none does
RECURSIVE OverlapScan(_, _, _)
OverlapScan(prev_words, curr_words, j) ==
    IF j >= Min(OverlapWindow, Len(prev_words))
    THEN 0
    ELSE LET overlap_size == OverlapSize(prev_words, curr_words, j)
         IN  IF /\ overlap_size >= MinOverlap
                /\ LowerPhrase(Suffix(prev_words, overlap_size))
                     = LowerPhrase(Prefix(curr_words, overlap_size))
             THEN overlap_size
             ELSE OverlapScan(prev_words, curr_words, j + 1)

\* a check that also removes a single repeated word
TrimmedTextOneWord(prev_words, curr_words) ==
    IF /\ OverlapScan(prev_words, curr_words, 0) = 0
       /\ prev_words # <<>> /\ curr_words # <<>>
       /\ Lower(prev_words[Len(prev_words)]) = Lower(curr_words[1])
    THEN Tail(curr_words)
    ELSE Drop(curr_words, OverlapScan(prev_words, curr_words, 0))

\* the text of the current chunk after the overlap check against prev_chunk
TrimmedText(prev_words, curr_words) ==
    Drop(curr_words, OverlapScan(prev_words, curr_words, 0))

\* the loop `for i, chunk in enumerate(chunks)` from chunk i on, as a
\* function of the chunk list: the final processed_chunks
RECURSIVE StitchFrom(_, _, _)
StitchFrom(chunk_list, i, processed) ==
    IF i > Len(chunk_list) THEN processed
    ELSE LET chunk == chunk_list[i]
             text  == IF chunk.text # <<>> /\ i > 1 /\ processed # <<>>
                      THEN TrimmedText(processed[Len(processed)].text, chunk.text)
                      ELSE chunk.text
         IN  StitchFrom(chunk_list, i + 1,
                        IF text # <<>>
                        THEN Append(processed, [chunk EXCEPT !.text = text])
                        ELSE processed)

\* the stitching pass over a chunk list
StitchPass(chunk_list) == StitchFrom(chunk_list, 1, <<>>)

-----------------------------------------------------------------------------
(* transcribe_audio_file: the windowing arithmetic *)

\* chunk_size = chunk_size_seconds * sr
ChunkSize == chunk_size_seconds * SR
\* overlap = overlap_seconds * sr
Overlap == overlap_seconds * SR
\* a step that forgets the overlap
StepWithoutOverlap == ChunkSize
\* the step of range(0, len(audio), chunk_size - overlap)
Step == ChunkSize - Overlap

\* end_idx = min(i + chunk_size, len(audio))
EndIdx(i) == Min(i + ChunkSize, audio_len)

\* `if len(chunk) < sr`: the window audio[i:end_idx] is skipped
TooShort(i) == EndIdx(i) - i < SR

\* range(0, len(audio), step) has a next value i (a negative step gives an
\* empty range, a zero step raises before the loop starts)
InRange(i) == Step > 0 /\ i < audio_len

-----------------------------------------------------------------------------
(* The recognition model: processor.batch_decode(...)[0].strip() is any text *)

\* the texts of the windowing scenarios
WindowTexts == {<<>>, <<"a", "b">>}

\* the texts of the stitching scenarios
SpecialTexts ==
    { <<"the", "quick", "brown", "fox">>,
      <<"brown", "fox", "jumps", "over">>,
      Rep("b", 10) \o <<"a", "b">>,
      <<"a", "b", "b">>,
      <<"a", "b", "a", "b">> }
StitchTexts == SeqsUpTo(Words, MaxWords) \cup SpecialTexts

\* the texts of the scenarios without shared phrases: short texts that
\* repeat at most single words or differ in case
DisjointTexts == SeqsUpTo({"a", "b"}, MaxWords) \cup {<<"A", "b">>}

ModelOutputs ==
    IF scenario = "windows" THEN WindowTexts
    ELSE IF scenario = "disjoint" THEN DisjointTexts
    ELSE StitchTexts

-----------------------------------------------------------------------------
(* transcribe_audio_file: the actions *)

\* range(0, len(audio), chunk_size - overlap) is evaluated: ValueError when
\* the step is zero
StartWindows ==
    /\ t_pc = "start"
    /\ IF Step = 0
       THEN /\ t_pc' = "raised"
            /\ UNCHANGED loop_i
       ELSE /\ t_pc' = "chunking"
            /\ loop_i' = 0
    /\ UNCHANGED <<audio_len, chunk_size_seconds, overlap_seconds, scenario,
                   chunks, stitch_i, processed_chunks, t_result>>
    /\ UNCHANGED not_tvars

\* one iteration of the windowing loop whose window is shorter than a second
SkipShortWindow ==
    /\ t_pc = "chunking"
    /\ InRange(loop_i)
    /\ TooShort(loop_i)
    /\ loop_i' = loop_i + Step
    /\ UNCHANGED <<t_pc, audio_len, chunk_size_seconds, overlap_seconds,
                   scenario, chunks, stitch_i, processed_chunks, t_result>>
    /\ UNCHANGED not_tvars

\* one iteration of the windowing loop that transcribes its window
TranscribeWindow ==
    /\ t_pc = "chunking"
    /\ InRange(loop_i)
    /\ ~TooShort(loop_i)
    /\ \E chunk_transcription \in ModelOutputs :
          chunks' = Append(chunks, [start_time |-> Max(0, loop_i),
                                    end_time   |-> EndIdx(loop_i),
                                    text       |-> chunk_transcription])
    /\ loop_i' = loop_i + Step
    /\ UNCHANGED <<t_pc, audio_len, chunk_size_seconds, overlap_seconds,
                   scenario, stitch_i, processed_chunks, t_result>>
    /\ UNCHANGED not_tvars

\* the windowing loop ends
EndWindows ==
    /\ t_pc = "chunking"
    /\ ~InRange(loop_i)
    /\ t_pc' = "stitching"
    /\ stitch_i' = 1
    /\ processed_chunks' = <<>>
    /\ UNCHANGED <<audio_len, chunk_size_seconds, overlap_seconds, scenario,
                   loop_i, chunks, t_result>>
    /\ UNCHANGED not_tvars

\* one iteration of `for i, chunk in enumerate(chunks)`
StitchChunk ==
    /\ t_pc = "stitching"
    /\ stitch_i <= Len(chunks)
    /\ LET chunk == chunks[stitch_i]
           text  == IF chunk.text # <<>> /\ stitch_i > 1 /\ processed_chunks # <<>>
                    THEN TrimmedText(processed_chunks[Len(processed_chunks)].text,
                                     chunk.text)
                    ELSE chunk.text
       IN  processed_chunks' =
             IF text # <<>>
             THEN Append(processed_chunks, [chunk EXCEPT !.text = text])
             ELSE processed_chunks
    /\ stitch_i' = stitch_i + 1
    /\ UNCHANGED <<t_pc, audio_len, chunk_size_seconds, overlap_seconds,
                   scenario, loop_i, chunks, t_result>>
    /\ UNCHANGED not_tvars

\* " ".join([chunk["text"] for chunk in processed_chunks])
RECURSIVE JoinTexts(_)
JoinTexts(cs) ==
    IF cs = <<>> THEN <<>> ELSE cs[1].text \o JoinTexts(Tail(cs))

\* return full_text, processed_chunks
ReturnTranscription ==
    /\ t_pc = "stitching"
    /\ stitch_i > Len(chunks)
    /\ t_result' = [kind |-> "returned",
                    full_text |-> JoinTexts(processed_chunks),
                    chunks |-> processed_chunks]
    /\ t_pc' = "done"
    /\ UNCHANGED <<audio_len, chunk_size_seconds, overlap_seconds, scenario,
                   loop_i, chunks, stitch_i, processed_chunks>>
    /\ UNCHANGED not_tvars

TranscribeNext ==
    \/ StartWindows
    \/ SkipShortWindow
    \/ TranscribeWindow
    \/ EndWindows
    \/ StitchChunk
    \/ ReturnTranscription

\* the locals at the call
TranscribeEntryLocals ==
    /\ loop_i = 0
    /\ chunks = <<>>
    /\ stitch_i = 1
    /\ processed_chunks = <<>>
    /\ t_result = NoResult

\* the state at the call, once the audio is loaded
TranscribeEntry ==
    /\ t_pc = "start"
    /\ loop_i = 0
    /\ chunks = <<>>
    /\ stitch_i = 1
    /\ processed_chunks = <<>>
    /\ t_result = NoResult

\* windowing scenarios: every waveform length and every pair of arguments
InitChunker ==
    /\ audio_len \in 0..(MaxAudioSeconds * SR)
    /\ chunk_size_seconds \in 0..MaxSeconds
    /\ overlap_seconds \in 0..MaxSeconds
    /\ scenario = "windows"
    /\ TranscribeEntry
    /\ MainIdle
    /\ CaptionIdle
    /\ ParserIdle

SpecChunker == InitChunker /\ [][TranscribeNext]_vars

\* stitching scenarios: chunks of 2 s overlapping by 1 s over a waveform that
\* holds MaxChunks windows and a tail of one sample, any texts
InitStitch ==
    /\ chunk_size_seconds = 2
    /\ overlap_seconds = 1
    /\ audio_len = MaxChunks * SR + 1
    /\ scenario = "stitch"
    /\ TranscribeEntry
    /\ MainIdle
    /\ CaptionIdle
    /\ ParserIdle

SpecStitch == InitStitch /\ [][TranscribeNext]_vars

\* the same windows with the texts of DisjointTexts
InitDisjoint ==
    /\ chunk_size_seconds = 2
    /\ overlap_seconds = 1
    /\ audio_len = MaxChunks * SR + 1
    /\ scenario = "disjoint"
    /\ TranscribeEntry
    /\ MainIdle
    /\ CaptionIdle
    /\ ParserIdle

SpecDisjoint == InitDisjoint /\ [][TranscribeNext]_vars

\* transcribe_audio_file is not running
TranscribeIdle ==
    /\ t_pc = "idle"
    /\ audio_len = 0
    /\ chunk_size_seconds = 0
    /\ overlap_seconds = 0
    /\ scenario = "windows"
    /\ TranscribeEntryLocals

InitMain ==
    /\ m_pc = "start"
    /\ m_audio \in {"file", "dir", "invalid"}
    /\ m_mode \in Modes
    /\ m_video \in BOOLEAN
    /\ m_generate_video \in BOOLEAN
    /\ m_listing \in (IF m_audio = "dir" THEN SeqsUpTo(Extensions, MaxFiles)
                                        ELSE {<<>>})
    /\ m_next = 1
    /\ m_calls = <<>>
    /\ m_failed_step = "none"
    /\ TranscribeIdle
    /\ CaptionIdle
    /\ ParserIdle

SpecMain == InitMain /\ [][MainNext]_vars

InitCaption == InitCaptionChunks /\ TranscribeIdle /\ MainIdle /\ ParserIdle

SpecCaption == InitCaption /\ [][CaptionNext]_vars

InitPacing == InitCaptionPacing /\ TranscribeIdle /\ MainIdle /\ ParserIdle

SpecPacing == InitPacing /\ [][CaptionNext]_vars

InitParser == InitParserCall /\ TranscribeIdle /\ MainIdle /\ CaptionIdle

SpecParser == InitParser /\ [][ParserNext]_vars

-----------------------------------------------------------------------------
(* Claims about the parser *)

\* a timestamp line with a well-formed start and a well-formed end
WellFormedTiming(line) ==
    line.k = "arrow" /\ Len(line.toks) = 2 /\ line.toks[1].ok /\ line.toks[2].ok

\* the position of the timestamp line of a block that is well-formed for the
\* function called, 0 for a malformed block
TimingAt(block) ==
    IF p_function = "parse_srt"
    THEN IF Len(block) >= 3 /\ WellFormedTiming(block[2]) THEN 2 ELSE 0
    ELSE IF Len(block) >= 2 /\ FindArrow(block, 1) > 0
            /\ WellFormedTiming(block[FindArrow(block, 1)])
         THEN FindArrow(block, 1) ELSE 0

\* the entries of the well-formed blocks among blocks k, k + 1, ...
RECURSIVE WellFormedEntries(_)
WellFormedEntries(k) ==
    IF k > Len(p_blocks) THEN <<>>
    ELSE (IF TimingAt(p_blocks[k]) > 0
          THEN <<Subtitle(p_blocks[k], TimingAt(p_blocks[k]))>> ELSE <<>>)
         \o WellFormedEntries(k + 1)

\* C6: for every input text, parse_srt and parse_vtt raise no error; every
\* malformed block (too few lines, no ' --> ' line, or a timestamp line whose
\* start or end is no well-formed timestamp) is skipped, and every well-formed
\* block of the same input is returned.
C6_ParserTolerance ==
    (p_pc = "done" /\ p_function \in {"parse_srt", "parse_vtt"})
    => p_result = Parsed(WellFormedEntries(1))

-----------------------------------------------------------------------------
(* Claims about generate_captions *)

\* generate_captions has returned a caption text
CaptionsReturned == c_pc \in {"returned", "parsed"}

\* the two texts select the branch of the generators
DualSource        == transcription # <<>> /\ translation # <<>>
TranslationOnly   == transcription = <<>> /\ translation # <<>>
TranscriptionOnly == translation = <<>>

\* the timing lines of the returned text
TimingLines == {k \in 1..Len(captions.lines) : captions.lines[k].k = "arrow"}

\* end - start of a timing line, in milliseconds
Dwell(line) == TimeToSeconds(line.toks[2]) - TimeToSeconds(line.toks[1])

\* C5: every cue that generate_captions emits for translation-only input
\* (translation non-empty, transcription empty, chunks non-empty), in either
\* format, has end_time - start_time >= 1.5 seconds.
C5_MinimumDwell ==
    (CaptionsReturned /\ TranslationOnly /\ c_chunks # <<>>
        /\ format_type \in {"srt", "vtt"})
    => \A k \in TimingLines : Dwell(captions.lines[k]) >= 1500

\* C7: for every input, generate_captions called with a format other than
\* "srt" and "vtt" fails with ValueError and never returns a string.
C7_UnsupportedFormat ==
    (format_type \notin {"srt", "vtt"} /\ c_pc # "call")
    => captions.kind = "ValueError"

\* C8: whenever generate_captions is asked for "srt" or "vtt" and produces no
\* cue, it returns exactly "No caption data available".
C8_NoDataSentinel ==
    (CaptionsReturned /\ format_type \in {"srt", "vtt"} /\ TimingLines = {})
    => captions.lines = <<SentinelLine>>

\* whole milliseconds of a time
TruncMs(t) == t.sec * 1000 + t.us \div 1000

\* the text lines of the cue of chunk k
CueLines(k) ==
    IF DualSource THEN <<TextLine(c_chunks[k].text), TextLine(mt_outputs[k])>>
    ELSE <<TextLine(c_chunks[k].text)>>

\* a non-blank string without leading or trailing blanks
Trimmed(str) == ~IsBlank(str) /\ Strip(str) = str

\* every chunk is a cue with non-blank texts, here without blanks around them
AllTextsNonBlank ==
    \A k \in 1..Len(c_chunks) :
        /\ Trimmed(c_chunks[k].text)
        /\ DualSource => Trimmed(mt_outputs[k])

\* C9: formatting a non-empty sequence of cues with 0 <= start <= end (no
\* upper bound on the times) and non-blank single-line texts to SRT with
\* generate_srt_captions and parsing the result back yields as
\* many entries in the same order, each with start and end equal to the
\* original truncated to whole milliseconds and text equal to the original
\* lines.
C9_SrtRoundTrip ==
    (c_pc = "parsed" /\ format_type = "srt" /\ c_chunks # <<>>
        /\ (DualSource \/ TranscriptionOnly) /\ AllTextsNonBlank)
    => /\ c_parsed.kind = "returned"
       /\ Len(c_parsed.subtitles) = Len(c_chunks)
       /\ \A k \in 1..Len(c_chunks) :
             /\ c_parsed.subtitles[k].start = TruncMs(c_chunks[k].start_time)
             /\ c_parsed.subtitles[k].end = TruncMs(c_chunks[k].end_time)
             /\ c_parsed.subtitles[k].text = CueLines(k)

\* the returned lines with the sequence numbers blotted out
WithoutNumbers(lines) ==
    [k \in 1..Len(lines) |-> IF lines[k].k = "num" THEN NumLine(0) ELSE lines[k]]

\* the cue of chunk k as the claim has it: start and end of the chunk, lines
\* [original_text, translated_text]
RECURSIVE ClaimedDualCues(_)
ClaimedDualCues(k) ==
    IF k > Len(c_chunks) THEN <<>>
    ELSE (IF ~IsBlank(c_chunks[k].text) /\ mt_outputs[k] # <<>>
          THEN (IF format_type = "srt" THEN <<NumLine(0)>> ELSE <<>>)
               \o <<TimingLine(c_chunks[k].start_time, c_chunks[k].end_time,
                               format_type),
                    TextLine(c_chunks[k].text),
                    TextLine(mt_outputs[k]),
                    EmptyLine>>
          ELSE <<>>)
         \o ClaimedDualCues(k + 1)

\* C10: when both texts are non-empty, generate_captions (for "srt" and for
\* "vtt") emits exactly one cue for each chunk that has a non-blank original
\* text and a non-empty translated text, in chunk order, with the chunk's
\* start and end and the lines [original_text, translated_text]; a chunk
\* lacking either text produces no cue.
C10_DualSourceCues ==
    (CaptionsReturned /\ DualSource /\ c_chunks # <<>>
        /\ format_type \in {"srt", "vtt"})
    => WithoutNumbers(captions.lines)
         = (IF format_type = "vtt" THEN <<HeaderLine, EmptyLine>> ELSE <<>>)
           \o ClaimedDualCues(1)

\* the timing lines and the sequence-number lines of the returned text, in
\* order
IsTiming(line) == line.k = "arrow"
IsNumber(line) == line.k = "num"
Timings == SelectSeq(captions.lines, IsTiming)
Numbers == SelectSeq(captions.lines, IsNumber)

\* start and end of a timing line, in milliseconds
StartOf(line) == TimeToSeconds(line.toks[1])
EndOf(line)   == TimeToSeconds(line.toks[2])

\* generate_srt_captions has returned the cues of a translation alone
SrtTranslationOnly ==
    CaptionsReturned /\ TranslationOnly /\ c_chunks # <<>> /\ format_type = "srt"

\* a text that is one sentence of fewer than 12 words: it has a word, and
\* nothing but blanks follows a sentence-ending character and a blank
OneShortSentence(text) ==
    /\ Len(Split(text)) \in 1..11
    /\ \A k \in 1..(Len(text) - 1) :
          (IsSentenceEnd(text[k]) /\ IsSpace(text[k + 1]))
          => IsBlank(SubSeq(text, k + 1, Len(text)))

\* C12: for a translation that is one sentence of fewer than 12 words and L
\* characters, generate_srt_captions emits exactly one cue, with index 1,
\* start 0 and end max(L / 30, 1.5) seconds.
C12_SingleShortSentence ==
    (SrtTranslationOnly /\ OneShortSentence(translation))
    => /\ Len(Timings) = 1
       /\ Numbers = <<NumLine(1)>>
       /\ StartOf(Timings[1]) = 0
       /\ EndOf(Timings[1]) = Max((Len(translation) * 1000) \div 30, 1500)

IsCueLine(line) == line.k \notin {"WEBVTT", "num"}

\* a timing line with the fractional-seconds separator blotted out
WithoutSeparator(line) ==
    [line EXCEPT !.toks = [t \in 1..Len(line.toks) |-> [line.toks[t] EXCEPT !.sep = ""]]]

\* a caption text without what the formats may differ in: the WEBVTT header
\* and the empty line after it, the sequence numbers, the separator
CueSequence(lines) ==
    LET body == IF lines # <<>> /\ lines[1] = HeaderLine THEN Drop(lines, 2) ELSE lines
        cues == SelectSeq(body, IsCueLine)
    IN  [k \in 1..Len(cues) |-> WithoutSeparator(cues[k])]

\* the text the other format gives for the same input
OtherFormatLines ==
    IF format_type = "srt"
    THEN GenerateVttCaptions(transcription, translation, c_chunks, mt_outputs)
    ELSE GenerateSrtCaptions(transcription, translation, c_chunks, mt_outputs)

\* C15: for the same (transcription, translation, chunks), generate_captions
\* with "srt" and with "vtt" write the same cues - as many, with the same
\* starts, ends and text lines in the same order - and differ only in the
\* WEBVTT header, the sequence numbers and the fractional-seconds separator.
C15_FormatIndependence ==
    (CaptionsReturned /\ format_type \in {"srt", "vtt"} /\ c_chunks # <<>>)
    => CueSequence(captions.lines) = CueSequence(OtherFormatLines)

\* C16: the cues of every SRT output of generate_srt_captions carry the
\* sequence numbers 1, 2, ..., n in order, also when chunks are skipped.
C16_SrtNumbering ==
    (CaptionsReturned /\ format_type = "srt" /\ c_chunks # <<>>)
    => \A k \in 1..Len(Numbers) : Numbers[k] = NumLine(k)

-----------------------------------------------------------------------------
(* Claims about main *)

\* main has ended, by returning or by an uncaught exception
MainEnded == m_pc \in {"done", "raised"}

\* the entries of the directory that are audio files
AudioEntries == {k \in 1..Len(m_listing) : IsAudioFile(m_listing[k])}

\* the entries process_file was invoked for
Invoked == {m_calls[k] : k \in 1..Len(m_calls)}

\* C4: when the input path is a directory, a failure while processing one
\* audio file ends only that file's processing: when main has ended,
\* process_file has been invoked for every audio file of the directory.
C4_BatchIsolation ==
    (m_audio = "dir" /\ MainEnded) => AudioEntries \subseteq Invoked

-----------------------------------------------------------------------------
(* Claims about the stitcher *)

\* the overlap lengths the trimming rule of the specification allows
ClaimedLengths(P, C) ==
    {k \in MinOverlap..Min(Min(Len(P), Len(C)), OverlapWindow) :
        LowerPhrase(Suffix(P, k)) = LowerPhrase(Prefix(C, k))}

SetMax(S) == CHOOSE x \in S : \A y \in S : y <= x

\* the number of leading words the trimming rule of the specification removes
ClaimedTrim(P, C) ==
    IF ClaimedLengths(P, C) = {} THEN 0 ELSE SetMax(ClaimedLengths(P, C))

\* the stitching loop is at a non-empty chunk that has an accepted predecessor
AtLaterChunk ==
    /\ t_pc = "stitching"
    /\ stitch_i <= Len(chunks)
    /\ chunks[stitch_i].text # <<>>
    /\ processed_chunks # <<>>

\* C1: for every chunk after the first surviving one, the stitcher removes
\* from the chunk's words C the largest k with 2 <= k <= min(|P|, |C|, 10)
\* such that the last k words of the previously accepted chunk P equal the
\* first k words of C after lowercasing (0 when there is none), and accepts
\* what is left unless it is empty.
C1_TrimRule ==
    [][AtLaterChunk =>
        LET P    == processed_chunks[Len(processed_chunks)].text
            C    == chunks[stitch_i].text
            rest == Drop(C, ClaimedTrim(P, C))
        IN  processed_chunks' =
              IF rest # <<>>
              THEN Append(processed_chunks, [chunks[stitch_i] EXCEPT !.text = rest])
              ELSE processed_chunks]_vars

\* the lengths k >= 2 for which the last k words of P equal the first k
\* words of C when case is ignored
SharedPhrases(P, C) ==
    {k \in 2..Min(Len(P), Len(C)) :
        LowerPhrase(Suffix(P, k)) = LowerPhrase(Prefix(C, k))}

\* C11: in the chunk list returned by transcribe_audio_file no two
\* consecutive chunks share a phrase of 2 or more words: there is no k >= 2
\* such that the last k words of the earlier text equal, case ignored, the
\* first k words of the later text.
C11_NoSharedPhrase ==
    t_pc = "done"
    => \A i \in 1..(Len(t_result.chunks) - 1) :
          SharedPhrases(t_result.chunks[i].text, t_result.chunks[i + 1].text) = {}

\* the chunks before chunk i that have a text
NonEmptyBefore(i) == {j \in 1..(i - 1) : chunks[j].text # <<>>}

\* no chunk's leading words repeat, in 2 or more words, the trailing words
\* of the preceding non-empty chunk
DisjointInput ==
    \A i \in 1..Len(chunks) :
        (chunks[i].text # <<>> /\ NonEmptyBefore(i) # {})
        => SharedPhrases(chunks[SetMax(NonEmptyBefore(i))].text, chunks[i].text) = {}

\* a chunk has a text
HasText(chunk) == chunk.text # <<>>

\* the words of the texts of a chunk list, in order
RECURSIVE AllWords(_)
AllWords(chunk_list) ==
    IF chunk_list = <<>> THEN <<>>
    ELSE Head(chunk_list).text \o AllWords(Tail(chunk_list))

\* C14: when the input chunks are disjoint, the stitching pass returns every
\* non-empty chunk with text, start_time and end_time unchanged and in the
\* original order, drops exactly the chunks with an empty text, returns as
\* full text the space-joined texts of the returned chunks, and the stitching
\* pass applied to its own output changes nothing.
C14_DisjointUnchanged ==
    (t_pc = "done" /\ DisjointInput)
    => /\ t_result.kind = "returned"
       /\ t_result.chunks = SelectSeq(chunks, HasText)
       /\ t_result.full_text = AllWords(t_result.chunks)
       /\ StitchPass(t_result.chunks) = t_result.chunks

\* C14 witness: disjoint input with a chunk without text between two chunks
\* with text, the later one starting with the word the earlier one ends with
C14_Witness ==
    /\ t_pc = "done"
    /\ DisjointInput
    /\ \E i \in 1..Len(chunks) : \E j \in (i + 2)..Len(chunks) :
          /\ chunks[i].text # <<>>
          /\ chunks[j].text # <<>>
          /\ \A m \in (i + 1)..(j - 1) : chunks[m].text = <<>>
          /\ Lower(chunks[i].text[Len(chunks[i].text)]) = Lower(chunks[j].text[1])
    /\ Len(t_result.chunks) >= 2

-----------------------------------------------------------------------------
(* Claims about the chunker *)

\* the arguments the chunker's contract allows
ValidWindowing == chunk_size_seconds > overlap_seconds /\ overlap_seconds >= 0

\* the windowing loop has ended: chunks holds the windows that were kept
WindowsDone == t_pc \in {"stitching", "done"}

\* sample x lies in a kept window
Covered(x) == \E k \in 1..Len(chunks) :
                 chunks[k].start_time <= x /\ x < chunks[k].end_time

\* the audio the k-th and the (k+1)-th kept window share, in samples
Shared(k) == chunks[k].end_time - chunks[k + 1].start_time

StartsOnSteps == \A k \in 1..Len(chunks) : chunks[k].start_time = (k - 1) * Step

\* C2 as stated: the kept windows start at multiples of the step, cover every
\* sample of [0, N), and consecutive kept windows share exactly the overlap,
\* except possibly the pair that ends with the final window.
C2_CoverageAsStated ==
    (ValidWindowing /\ WindowsDone) =>
        /\ StartsOnSteps
        /\ \A x \in 0..(audio_len - 1) : Covered(x)
        /\ \A k \in 1..(Len(chunks) - 2) : Shared(k) = Overlap

\* C2 as amended: the kept windows start at the multiples 0, step, 2 step, ...
\* of the step and lie in [0, N); a sample of [0, N) that no kept window
\* holds lies in the last second of the waveform; consecutive kept windows
\* share exactly the overlap, except pairs whose earlier window is cut at the
\* end of the waveform, which share less.
C2_Coverage ==
    (ValidWindowing /\ WindowsDone) =>
        /\ StartsOnSteps
        /\ \A k \in 1..Len(chunks) :
              /\ chunks[k].end_time <= audio_len
              /\ chunks[k].end_time - chunks[k].start_time >= SR
        /\ \A x \in 0..(audio_len - 1) : Covered(x) \/ audio_len - x < SR
        /\ \A k \in 1..(Len(chunks) - 1) :
              \/ Shared(k) = Overlap
              \/ chunks[k].end_time = audio_len /\ Shared(k) < Overlap

\* C2 witness: a valid windowing with three kept windows, of which the first
\* two share exactly the overlap and the second is cut at the end of the
\* waveform, and with a dropped tail window
C2_Witness ==
    /\ ValidWindowing /\ WindowsDone
    /\ overlap_seconds > 0
    /\ Len(chunks) >= 3
    /\ Shared(1) = Overlap
    /\ Shared(2) < Overlap
    /\ loop_i > Len(chunks) * Step

\* C3: a call whose chunk_size_seconds does not exceed overlap_seconds is
\* rejected with an error before any window is processed; for a non-empty
\* waveform it never returns normally (with an empty transcription and an
\* empty chunk list).
C3_BadStepRejected ==
    (chunk_size_seconds <= overlap_seconds /\ audio_len > 0) => t_pc # "done"

=============================================================================
